---- MODULE Spec2Model ----
(***************************************************************************)
(* Work-unit planning and completion tracking of nemo_skills.pipeline:     *)
(* generate.py (marker paths, completion probe, pipeline composition,      *)
(* task chaining) and eval.py (work matrix, job batching).                 *)
(*                                                                         *)
(* Strings are sequences of one-character strings, so that formatting and  *)
(* parsing are computed and not assumed.  An optional value (Python None   *)
(* or a value) is the empty tuple or a one-element tuple.                  *)
(***************************************************************************)
EXTENDS Integers, Sequences, FiniteSets, TLC

\* ------------------------------------------------------------------ bounds
\* largest number of sampled seeds of the small configurations
MaxSeeds == 2
\* largest num_chunks of a chunked configuration
MaxChunks == 3
\* number of planner invocations in one behaviour
MaxRuns == 2
\* largest dependent_jobs
MaxDependentJobs == 1
\* seeds beyond request_size in the large configuration
ExtraSeeds == 1
\* seeds and chunk ids of the marker-path specification range up to this
MaxId == 12
\* marker files absent when a behaviour starts with most markers present
MaxMissing == 1
\* largest sample count of a benchmark given to eval
MaxSamples == 2
\* largest num_jobs given to eval
MaxJobs == 3
\* longest time the code sent to the sandbox runs, and largest timeout
MaxWork == 3
MaxTimeout == 3

\* -------------------------------------------------------------------- state
VARIABLES
    cfg,            \* the arguments every invocation of generate is given
    markers,        \* the .done files that exist (host paths)
    pc,             \* generate: "idle", "probe", "compose", "done", "failed"
    runs,           \* invocations of generate started so far
    groups,         \* probe invocations still to issue in this run
    outputs,        \* outputs of the probe invocations issued in this run
    probes,         \* probe invocations issued in this run
    probe_exit,     \* exit status of the last probe invocation of this run
    remaining_jobs, \* what get_remaining_jobs returned in this run
    exp,            \* the tasks added to the experiment in this run
    ran,            \* run_exp was called in this run
    jobs,           \* tasks handed to the execution backend and not yet over
    completed,      \* units a pipeline of which has run to completion
    start_markers,  \* markers when this run started
    start_completed,\* completed when this run started
    prev,           \* the last run that returned: its markers and tasks
    \* get_expected_done_files on its own
    m_args,         \* [random_seeds, chunk_ids, output_prefix]
    file_map,       \* None, or Some(the mapping it returned)
    \* eval()
    ecfg,           \* the arguments of eval
    epc,            \* eval: "start", "composed", "batched", "launched"
    eval_cmds,      \* the list eval_cmds of (cmd, benchmark)
    job_batches,    \* the list job_batches of (cmds, benchmarks_in_job)
    etasks,         \* the tasks eval added to its experiment
    eserver,        \* eval's server_config port and ++server.port argument
    \* the sandbox server's /execute
    sreq,           \* the request: what the code does, how long, the timeout
    spc,            \* execute(): "received", "joining", "checked", "getting", "returned"
    child,          \* the subprocess: "none", "running", "flushing", "exited", "killed"
    work,           \* time the executed code still needs
    clock,          \* time spent in process.join so far
    squeue,         \* the results the parent's end of the queue can read
    sresp           \* None, or Some(the response returned to the caller)

gvars == <<cfg, markers, pc, runs, groups, outputs, probes, probe_exit,
           remaining_jobs, exp, ran, jobs, completed, start_markers,
           start_completed, prev>>
mvars == <<m_args, file_map>>
evars == <<ecfg, epc, eval_cmds, job_batches, etasks, eserver>>
svars == <<sreq, spc, child, work, clock, squeue, sresp>>
vars == <<gvars, mvars, evars, svars>>

\* ----------------------------------------------------------------- options
None == <<>>
Some(x) == <<x>>
IsNone(o) == o = <<>>
Val(o) == o[1]

\* ----------------------------------------------------------------- strings
DigitChars == <<"0", "1", "2", "3", "4", "5", "6", "7", "8", "9">>

RECURSIVE Digits(_)
Digits(n) ==
    IF n < 10 THEN <<DigitChars[n + 1]>>
    ELSE Digits(n \div 10) \o <<DigitChars[(n % 10) + 1]>>

\* Python str(int)
py_str(n) == IF n < 0 THEN <<"-">> \o Digits(0 - n) ELSE Digits(n)

IsDigit(c) == \E i \in 1..10 : DigitChars[i] = c
DigitVal(c) == (CHOOSE i \in 1..10 : DigitChars[i] = c) - 1

RECURSIVE DigitsVal(_)
DigitsVal(s) ==
    IF Len(s) = 0 THEN 0
    ELSE 10 * DigitsVal(SubSeq(s, 1, Len(s) - 1)) + DigitVal(s[Len(s)])

AllDigits(s) == Len(s) > 0 /\ \A i \in 1..Len(s) : IsDigit(s[i])

\* Python int(str): whether it parses, and its value
py_int_ok(s) ==
    /\ Len(s) > 0
    /\ IF s[1] = "-" \/ s[1] = "+" THEN AllDigits(Tail(s)) ELSE AllDigits(s)
py_int(s) ==
    IF s[1] = "-" THEN 0 - DigitsVal(Tail(s))
    ELSE IF s[1] = "+" THEN DigitsVal(Tail(s))
    ELSE DigitsVal(s)

StartsWith(s, p) == Len(s) >= Len(p) /\ SubSeq(s, 1, Len(p)) = p
\* Python s.replace(old, new): every non-overlapping occurrence, left to right
RECURSIVE Replace(_, _, _)
Replace(s, old, new) ==
    IF Len(s) = 0 THEN <<>>
    ELSE IF StartsWith(s, old)
         THEN new \o Replace(SubSeq(s, Len(old) + 1, Len(s)), old, new)
         ELSE <<s[1]>> \o Replace(Tail(s), old, new)

\* Python s.split(sep) for a one-character sep: the list of fields
RECURSIVE SplitAcc(_, _, _)
SplitAcc(s, sep, cur) ==
    IF Len(s) = 0 THEN <<cur>>
    ELSE IF s[1] = sep THEN <<cur>> \o SplitAcc(Tail(s), sep, <<>>)
         ELSE SplitAcc(Tail(s), sep, Append(cur, s[1]))
Split(s, sep) == SplitAcc(s, sep, <<>>)

\* index of the last occurrence of character c in s, 0 when absent
LastIndexOf(s, c) ==
    IF \E i \in 1..Len(s) : s[i] = c
    THEN CHOOSE i \in 1..Len(s) : s[i] = c /\ \A j \in (i + 1)..Len(s) : s[j] # c
    ELSE 0

RECURSIVE Flatten(_)
Flatten(ss) == IF Len(ss) = 0 THEN <<>> ELSE ss[1] \o Flatten(Tail(ss))

Range(f) == {f[i] : i \in DOMAIN f}

\* ------------------------------------------------------------ string values
S_output == <<"o", "u", "t", "p", "u", "t">>
S_rs == <<"-", "r", "s">>
S_jsonl == <<".", "j", "s", "o", "n", "l">>
S_done == <<".", "d", "o", "n", "e">>
S_chunk == <<"-", "c", "h", "u", "n", "k">>
S_MISSING == <<"M", "I", "S", "S", "I", "N", "G", ":">>
S_NONE == <<"N", "O", "N", "E">>
\* the output directory as the job sees it (mounted) and as the host sees it
S_output_dir == <<"/", "w">>
S_status_dir == <<"/", "h">>

\* ------------------------------------------------------------ marker paths
\* nemo_skills.utils.get_chunked_filename(chunk_id, output_filename): the
\* chunk suffix goes before the extension
get_chunked_filename(chunk_id, output_filename) ==
    LET dot == LastIndexOf(output_filename, ".")
        root == IF dot = 0 THEN output_filename ELSE SubSeq(output_filename, 1, dot - 1)
        ext == IF dot = 0 THEN <<>> ELSE SubSeq(output_filename, dot, Len(output_filename))
    IN  root \o S_chunk \o py_str(chunk_id) \o ext

\* os.path.join(output_dir, base_filename)
path_join(dir, base) == dir \o <<"/">> \o base

get_chunked_rs_filename_NoSeed(output_dir, random_seed, chunk_id, output_prefix) ==
    LET base_filename == output_prefix \o S_jsonl
    IN  path_join(output_dir,
                  IF IsNone(chunk_id) THEN base_filename
                  ELSE get_chunked_filename(Val(chunk_id), base_filename))

get_chunked_rs_filename(output_dir, random_seed, chunk_id, output_prefix) ==
    LET base_filename ==
            IF ~IsNone(random_seed)
            THEN output_prefix \o S_rs \o py_str(Val(random_seed)) \o S_jsonl
            ELSE output_prefix \o S_jsonl
    IN  path_join(output_dir,
                  IF ~IsNone(chunk_id)
                  THEN get_chunked_filename(Val(chunk_id), base_filename)
                  ELSE base_filename)

\* the .done path of one unit
done_file(output_dir, seed, chunk_id, output_prefix) ==
    get_chunked_rs_filename(output_dir, seed, chunk_id, output_prefix) \o S_done

\* dict insertion: the keys of a dict in first-insertion order
RECURSIVE Dedup(_)
Dedup(s) ==
    IF Len(s) = 0 THEN <<>>
    ELSE LET r == Dedup(SubSeq(s, 1, Len(s) - 1))
         IN  IF s[Len(s)] \in Range(r) THEN r ELSE Append(r, s[Len(s)])

\* the keys (seed, chunk_id) of file_map, in insertion order
expected_keys(random_seeds, chunk_ids) ==
    Dedup(Flatten([i \in 1..Len(random_seeds) |->
                     [j \in 1..Len(chunk_ids) |-> <<random_seeds[i], chunk_ids[j]>>]]))

\* file_map as a list of <<key, path>> in insertion order
get_expected_done_files(output_dir, random_seeds, chunk_ids, output_prefix) ==
    LET keys == expected_keys(random_seeds, chunk_ids)
    IN  [k \in 1..Len(keys) |->
           <<keys[k], done_file(output_dir, keys[k][1], keys[k][2], output_prefix)>>]


\* --------------------------------------------------------- program constants
request_size == 16

GenerationTypes == {"generate", "reward", "math_judge", "genselect"}

\* ports get_free_port(strategy="random") may return
FreePorts == {"p1", "p2"}

\* ------------------------------------------------------------ configuration
\* One invocation's arguments.  num_random_seeds = 0 stands for "not given",
\* chunk_ids and random_seeds are optional lists of integers (the Python call
\* form); random_seeds is given by SeedListConfigs only, exclusive and
\* server_gpus = 8 by ServerConfigs only.
Cfg(gt, nrs, nc, cids, rerun, ex, addr, dep, post, ev) ==
    [generation_type |-> gt, num_random_seeds |-> nrs, starting_seed |-> 0,
     random_seeds |-> None, exclusive |-> FALSE, server_gpus |-> 1,
     num_chunks |-> nc, chunk_ids |-> cids, rerun_done |-> rerun,
     executor |-> ex, server_address |-> addr, dependent_jobs |-> dep,
     postprocess_cmd |-> post, eval_args |-> ev, output_prefix |-> S_output]

\* chunking requests: none, all chunks, explicit lists (in range, negative,
\* beyond num_chunks), and chunk ids given without num_chunks
ChunkRequests ==
    {<<None, None>>, <<None, Some(<<0>>)>>}
    \cup {<<Some(n), None>> : n \in 2..MaxChunks}
    \cup UNION {{<<Some(n), Some(<<c>>)>> : c \in {0, n - 1, n, -1}} : n \in 2..MaxChunks}
    \cup {<<Some(2), Some(<<0, 1>>)>>, <<Some(2), Some(<<1, 0>>)>>}

\* probe-centred configurations: several seeds without chunking, chunking
\* with at most one seed, and a seeds x chunks grid
ProbeConfigs ==
    {Cfg("generate", nrs, None, None, rerun, ex, Some("addr"), 0, FALSE, FALSE) :
        nrs \in 0..MaxSeeds, rerun \in BOOLEAN, ex \in {"local", "slurm"}}
    \cup {Cfg("generate", nrs, cr[1], cr[2], rerun, "local", Some("addr"), 0, FALSE, FALSE) :
            nrs \in 0..1, cr \in ChunkRequests, rerun \in BOOLEAN}
    \cup {Cfg("generate", 2, Some(2), None, FALSE, ex, Some("addr"), 0, FALSE, FALSE) :
            ex \in {"local", "slurm"}}

\* composition-centred configurations
ComposeConfigs ==
    {Cfg("generate", nrs, cr[1], cr[2], FALSE, "local", addr, dep, post, ev) :
        nrs \in 0..1, cr \in {<<None, None>>, <<Some(2), None>>, <<Some(2), Some(<<0>>)>>},
        addr \in {None, Some("addr")}, dep \in 0..MaxDependentJobs,
        post \in BOOLEAN, ev \in BOOLEAN}

\* the generation types that bring their own evaluation
TypeConfigs ==
    {Cfg(gt, nrs, nc, None, rerun, "local", Some("addr"), 0, FALSE, ev) :
        gt \in GenerationTypes \ {"generate"}, nrs \in 0..1,
        nc \in {None, Some(2)}, rerun \in BOOLEAN, ev \in BOOLEAN}

\* more seeds than one probe request holds
LargeConfigs ==
    {Cfg("generate", request_size + ExtraSeeds, None, None, FALSE, ex,
         Some("addr"), 0, FALSE, FALSE) : ex \in {"local", "slurm"}}

\* few seeds, and more chunks than one probe request holds
ManyChunksConfigs ==
    {Cfg("generate", nrs, Some(request_size + ExtraSeeds), None, FALSE, "local",
         Some("addr"), 0, FALSE, FALSE) : nrs \in 0..1}

\* more seeds than one probe request holds, each in two chunks
ManySeedsChunkedConfigs ==
    {Cfg("generate", request_size + ExtraSeeds, Some(2), None, FALSE, "local",
         Some("addr"), 0, FALSE, FALSE)}

\* full-node jobs: exclusive, or all 8 GPUs of a node for the server
ServerConfigs ==
    {[Cfg("generate", nrs, None, None, FALSE, "local", addr, 0, FALSE, FALSE)
        EXCEPT !.exclusive = ex, !.server_gpus = g] :
        nrs \in {0, MaxSeeds}, addr \in {None, Some("addr")}, ex \in BOOLEAN, g \in {1, 8}}

\* an explicit seed list, alone or together with a sample count
SeedListConfigs ==
    {[Cfg(gt, nrs, None, None, FALSE, "local", Some("addr"), 0, FALSE, FALSE)
        EXCEPT !.random_seeds = Some(rs)] :
        gt \in {"generate", "genselect"}, nrs \in {0, MaxSeeds},
        rs \in {<<>>, <<1>>, <<2, 0>>}}

Configs ==
    ProbeConfigs \cup ComposeConfigs \cup TypeConfigs \cup LargeConfigs
    \cup SeedListConfigs \cup ManyChunksConfigs \cup ManySeedsChunkedConfigs
    \cup ServerConfigs

\* ------------------------------------------------- generate(): work matrix
ChunkingEnabled(c) == ~IsNone(c.num_chunks) \/ ~IsNone(c.chunk_ids)

\* nemo_skills.utils.compute_chunk_ids(chunk_ids, num_chunks)
compute_chunk_ids(chunk_ids, num_chunks) ==
    IF IsNone(chunk_ids) THEN Some([i \in 1..num_chunks |-> Some(i - 1)])
    ELSE Some([i \in 1..Len(Val(chunk_ids)) |-> Some(Val(chunk_ids)[i])])

\* random_seeds after lines 547-552 and 596-597: a list of optional seeds
SeedsOf(c) ==
    IF c.num_random_seeds > 0
    THEN [i \in 1..c.num_random_seeds |-> Some(c.starting_seed + i - 1)]
    ELSE IF ~IsNone(c.random_seeds) /\ Len(Val(c.random_seeds)) > 0
    THEN [i \in 1..Len(Val(c.random_seeds)) |-> Some(Val(c.random_seeds)[i])]
    ELSE <<None>>

\* chunk_ids after lines 554-557: a list of optional chunk ids
ChunkIdsOf(c) ==
    LET truthy == ~IsNone(c.num_chunks) /\ Val(c.num_chunks) # 0
        ids == IF truthy THEN compute_chunk_ids(c.chunk_ids, Val(c.num_chunks))
               ELSE IF IsNone(c.chunk_ids) THEN None
               ELSE Some([i \in 1..Len(Val(c.chunk_ids)) |-> Some(Val(c.chunk_ids)[i])])
    IN  IF IsNone(ids) THEN <<None>> ELSE Val(ids)

\* the requested units in planning order
UnitsOf(c) == expected_keys(SeedsOf(c), ChunkIdsOf(c))

\* the pre-flight error of lines 522-529 and 547-548, "" when there is none;
\* "random_seeds and num_random_seeds" is Python truth: a non-empty list and
\* a non-zero count
Preflight_ChunkingOnly(c) ==
    IF ChunkingEnabled(c) /\ c.generation_type # "generate" THEN "chunking_unsupported"
    ELSE ""

Preflight(c) ==
    IF ChunkingEnabled(c) /\ c.generation_type # "generate" THEN "chunking_unsupported"
    ELSE IF /\ ~IsNone(c.random_seeds) /\ Len(Val(c.random_seeds)) > 0
            /\ c.num_random_seeds # 0
         THEN "both_seed_arguments"
    ELSE ""

\* ------------------------------------------------ get_remaining_jobs: probe
\* the early return of lines 89-90: only without rerun_done is anything probed
NeedsProbeAlways(c) == TRUE

NeedsProbe(c) == ~c.rerun_done

\* get_unmounted_path applied by filepath.replace(output_dir, status_dir)
Unmount(filepath) == Replace(filepath, S_output_dir, S_status_dir)

\* one existence check: the path looked at and the line echoed when absent
CheckCommand(key, filepath) ==
    [path |-> Unmount(filepath),
     line |-> S_MISSING
              \o (IF IsNone(key[1]) THEN S_NONE ELSE py_str(Val(key[1])))
              \o <<":">>
              \o (IF IsNone(key[2]) THEN S_NONE ELSE py_str(Val(key[2])))]

check_commands(c) ==
    LET files == get_expected_done_files(S_output_dir, SeedsOf(c), ChunkIdsOf(c),
                                         c.output_prefix)
    IN  [i \in 1..Len(files) |-> CheckCommand(files[i][1], files[i][2])]

\* check_commands[i : i + request_size] for i = 0, request_size, ...
RECURSIVE GroupsOf(_, _)
GroupsOf(cmds, size) ==
    IF Len(cmds) = 0 THEN <<>>
    ELSE IF Len(cmds) <= size THEN <<cmds>>
    ELSE <<SubSeq(cmds, 1, size)>> \o GroupsOf(SubSeq(cmds, size + 1, Len(cmds)), size)

\* the probe invocations of one planner run (lines 103-121)
ProbeGroups_PerCommand(c) ==
    [i \in 1..Len(check_commands(c)) |-> <<check_commands(c)[i]>>]

ProbeGroups(c) ==
    IF Len(SeedsOf(c)) > request_size
    THEN GroupsOf(check_commands(c), request_size)
    ELSE <<check_commands(c)>>

\* what bash prints for one group: one line per absent file
RECURSIVE RunGroupInverted(_, _)
RunGroupInverted(group, files) ==
    IF Len(group) = 0 THEN <<>>
    ELSE (IF group[1].path \in files THEN <<group[1].line>> ELSE <<>>)
         \o RunGroupInverted(Tail(group), files)

RECURSIVE RunGroup(_, _)
RunGroup(group, files) ==
    IF Len(group) = 0 THEN <<>>
    ELSE (IF group[1].path \notin files THEN <<group[1].line>> ELSE <<>>)
         \o RunGroup(Tail(group), files)

\* "\n".join(outputs): tunnel output is stripped, local output ends each
\* line with a newline, so joining leaves an empty line between outputs
RECURSIVE JoinOutputs(_, _)
JoinOutputs(outs, ex) ==
    IF Len(outs) = 0 THEN <<>>
    ELSE IF Len(outs) = 1 THEN outs[1]
    ELSE outs[1] \o (IF ex = "slurm" \/ Len(outs[1]) = 0 THEN <<>> ELSE <<<<>>>>)
         \o JoinOutputs(Tail(outs), ex)

\* ordered dict seed -> list, as a list of <<seed, list>>
HasKey(d, k) == \E i \in 1..Len(d) : d[i][1] = k
DictAppend(d, k, v) ==
    IF HasKey(d, k)
    THEN [i \in 1..Len(d) |-> IF d[i][1] = k THEN <<k, Append(d[i][2], v)>> ELSE d[i]]
    ELSE Append(d, <<k, <<v>>>>)
DictTouch(d, k) == IF HasKey(d, k) THEN d ELSE Append(d, <<k, <<>>>>)

\* one output line parses (lines 126-129) or raises ValueError
LineOk(line) ==
    ~StartsWith(line, S_MISSING)
    \/ LET parts == Split(line, ":")
       IN  /\ Len(parts) = 3
           /\ parts[2] = S_NONE \/ py_int_ok(parts[2])
           /\ parts[3] = S_NONE \/ py_int_ok(parts[3])

ParseField(str) == IF str = S_NONE THEN None ELSE Some(py_int(str))

RECURSIVE ParseMissing(_)
ParseMissing(lines) ==
    IF Len(lines) = 0 THEN <<>>
    ELSE LET d == ParseMissing(SubSeq(lines, 1, Len(lines) - 1))
             line == lines[Len(lines)]
             parts == Split(line, ":")
         IN  IF StartsWith(line, S_MISSING)
             THEN DictAppend(d, ParseField(parts[2]), ParseField(parts[3]))
             ELSE d

\* the done_jobs loop (lines 132-135) reads missing_jobs[seed] of a
\* defaultdict, which inserts every seed it did not hold
RECURSIVE TouchSeeds(_, _)
TouchSeeds(d, keys) ==
    IF Len(keys) = 0 THEN d
    ELSE TouchSeeds(DictTouch(d, keys[1][1]), Tail(keys))

\* the mapping get_remaining_jobs returns from the joined probe output
missing_jobs_shared(c, lines) ==
    TouchSeeds(ParseMissing(IF runs > 1 THEN lines \o lines ELSE lines), UnitsOf(c))

missing_jobs(c, lines) == TouchSeeds(ParseMissing(lines), UnitsOf(c))

\* the mapping returned under rerun_done (line 90)
RerunJobs(c) ==
    LET seeds == Dedup(SeedsOf(c))
    IN  [i \in 1..Len(seeds) |-> <<seeds[i], ChunkIdsOf(c)>>]

\* the (seed, chunk) pairs of a mapping, in iteration order
PairsOf(d) ==
    Flatten([i \in 1..Len(d) |-> [j \in 1..Len(d[i][2]) |-> <<d[i][1], d[i][2][j]>>]])


\* ------------------------------------------------------- get_cmd: pipelines
\* One stage of a command pipeline (stages are joined by &&).  file is the
\* file a stage writes or touches, files the inputs of a merge, flag says
\* that a merge carries the post-process command after "--".
Stage(kind, file, files, flag) ==
    [kind |-> kind, file |-> file, files |-> files, flag |-> flag]

\* donefiles[chunk_id] of a Python list of length n: the 1-based index, 0
\* when Python raises IndexError
PyIndex(chunk_id, n) ==
    IF chunk_id >= 0 /\ chunk_id < n THEN chunk_id + 1
    ELSE IF chunk_id < 0 /\ chunk_id >= 0 - n THEN n + chunk_id + 1
    ELSE 0

\* the donefiles list of get_cmd (lines 217-222)
donefiles(c, seed) ==
    [i \in 1..Val(c.num_chunks) |->
        done_file(S_output_dir, seed, Some(i - 1), c.output_prefix)]

\* the files handed to merge_chunks: f[:-5] for f in donefiles (line 235)
merge_inputs_requested(c, seed) ==
    LET ids == ChunkIdsOf(c)
    IN  [i \in 1..Len(ids) |->
            get_chunked_rs_filename(S_output_dir, seed, ids[i], c.output_prefix)]

merge_inputs(c, seed) ==
    LET d == donefiles(c, seed)
    IN  [i \in 1..Len(d) |-> SubSeq(d[i], 1, Len(d[i]) - 5)]

\* get_cmd of generation type generate (lines 177-262):
\* [ok, cmd, postprocess_cmd]; ok is FALSE when Python raises
get_cmd_merge_first(c, seed, chunk_id) ==
    LET unchunked == get_chunked_rs_filename(S_output_dir, seed, None, c.output_prefix)
        gen == Stage("generate", unchunked, <<>>, FALSE)
    IN  IF ~IsNone(chunk_id)
        THEN IF IsNone(c.num_chunks) \/ PyIndex(Val(chunk_id), Val(c.num_chunks)) = 0
             THEN [ok |-> FALSE, cmd |-> <<>>, postprocess_cmd |-> <<>>]
             ELSE [ok |-> TRUE, cmd |-> <<gen>>,
                   postprocess_cmd |->
                     << Stage("merge", unchunked, merge_inputs(c, seed), c.postprocess_cmd),
                        Stage("touch",
                              donefiles(c, seed)[PyIndex(Val(chunk_id), Val(c.num_chunks))],
                              <<>>, FALSE) >>]
        ELSE [ok |-> TRUE, cmd |-> <<gen>>,
              postprocess_cmd |-> <<Stage("touch", unchunked \o S_done, <<>>, FALSE)>>]

get_cmd(c, seed, chunk_id) ==
    LET unchunked == get_chunked_rs_filename(S_output_dir, seed, None, c.output_prefix)
        gen == Stage("generate", unchunked, <<>>, FALSE)
    IN  IF ~IsNone(chunk_id)
        THEN IF IsNone(c.num_chunks) \/ PyIndex(Val(chunk_id), Val(c.num_chunks)) = 0
             THEN [ok |-> FALSE, cmd |-> <<>>, postprocess_cmd |-> <<>>]
             ELSE LET output_file == get_chunked_rs_filename(S_output_dir, seed, chunk_id,
                                                             c.output_prefix)
                      job_end_cmd ==
                          Stage("touch",
                                donefiles(c, seed)[PyIndex(Val(chunk_id), Val(c.num_chunks))],
                                <<>>, FALSE)
                      merge_cmd == Stage("merge", unchunked, merge_inputs(c, seed),
                                         c.postprocess_cmd)
                  IN  [ok |-> TRUE,
                       cmd |-> <<gen>> \o (IF c.eval_args
                                           THEN <<Stage("evaluate", output_file, <<>>, FALSE)>>
                                           ELSE <<>>),
                       postprocess_cmd |-> <<job_end_cmd, merge_cmd>>]
        ELSE LET job_end_cmd == Stage("touch", unchunked \o S_done, <<>>, FALSE)
             IN  [ok |-> TRUE,
                  cmd |-> <<gen>> \o (IF c.eval_args
                                      THEN <<Stage("evaluate", unchunked, <<>>, FALSE)>>
                                      ELSE <<>>),
                  postprocess_cmd |->
                      <<job_end_cmd>> \o (IF c.postprocess_cmd
                                          THEN <<Stage("postprocess", <<>>, <<>>, FALSE)>>
                                          ELSE <<>>)]

\* get_rm_cmd, get_math_judge_cmd, get_genselect_cmd (lines 268-341)
get_own_eval_cmd(c, seed, chunk_id) ==
    IF c.eval_args
    THEN [ok |-> FALSE, cmd |-> <<>>, postprocess_cmd |-> <<>>]
    ELSE [ok |-> TRUE,
          cmd |-> <<Stage(c.generation_type, <<>>, <<>>, FALSE)>>,
          postprocess_cmd |-> IF c.postprocess_cmd
                              THEN <<Stage("postprocess", <<>>, <<>>, FALSE)>>
                              ELSE <<>>]

\* client_command_factories[generation_type]
client_command(c, seed, chunk_id) ==
    IF c.generation_type = "generate" THEN get_cmd(c, seed, chunk_id)
    ELSE get_own_eval_cmd(c, seed, chunk_id)

\* the genselect preprocess command (lines 612-615)
genselect_preprocess == Stage("genselect_preprocess", <<>>, <<>>, FALSE)

\* pipeline.utils.wrap_cmd(cmd, preprocess_cmd, postprocess_cmd)
wrap_cmd(cmd, preprocess_cmd, postprocess_cmd) == preprocess_cmd \o cmd \o postprocess_cmd

\* get_random_port (line 545)
get_random_port(c) == c.server_gpus # 8 /\ ~c.exclusive

\* the fixed port of a full-node job (line 641)
S_5000 == "5000"

\* server_port as generate passes it to configure_client (line 641); drawn
\* is what get_free_port returns there
passed_server_port(c, drawn) == IF get_random_port(c) THEN drawn ELSE S_5000

\* configure_client (lines 373-410): when the job hosts the model the port
\* is drawn again (line 386), whatever server_port was passed; port is that
\* draw of get_free_port.  server_config is the port of the server config,
\* client_port the port of the ++server.port argument; both None when the
\* model is hosted elsewhere.
configure_client(c, server_port, port) ==
    IF IsNone(c.server_address)
    THEN [server_config |-> Some(port), client_port |-> Some(port)]
    ELSE [server_config |-> None, client_port |-> None]

\* --------------------------------------------------- generate(): the tasks
\* A task as handed to add_task: its pipeline, the port of its server config
\* (None when no server is booted), the port its generation command is told
\* to connect to (None when it is given a base_url) and, in
\* task_dependencies, the positions in the experiment of the tasks it waits
\* for.
Task(kind, unit, link, cmd, client, deps) ==
    [kind |-> kind, unit |-> unit, link |-> link, cmd |-> cmd,
     server_port |-> client.server_config, client_port |-> client.client_port,
     task_dependencies |-> deps]

\* the k+1 chained tasks of one unit, the first after the tasks in initial
\* (lines 665-696)
Chain_Unchained(c, unit, cmd, client, initial, at) ==
    [l \in 1..(c.dependent_jobs + 1) |-> Task("unit", unit, l - 1, cmd, client, initial)]

Chain(c, unit, cmd, client, initial, at) ==
    [l \in 1..(c.dependent_jobs + 1) |->
        Task("unit", unit, l - 1, cmd, client,
             IF l = 1 THEN initial ELSE {at + l - 1})]

\* initial_tasks (lines 610-628): the preprocess task, which is the first
\* task of the experiment, for genselect, and nothing otherwise
initial_tasks_None(c) == {}

initial_tasks(c) == IF c.generation_type = "genselect" THEN {1} ELSE {}

\* the loop of lines 630-696 over the first n pairs: the tasks added and
\* whether a command factory raised
RECURSIVE AddTasks(_, _, _, _, _, _)
AddTasks(c, pairs, drawn, ports, first, n) ==
    IF n = 0 THEN [tasks |-> first, raised |-> FALSE]
    ELSE LET before == AddTasks(c, pairs, drawn, ports, first, n - 1)
             seed == pairs[n][1]
             chunk_id == pairs[n][2]
             r == client_command(c, seed, chunk_id)
             pre == IF c.generation_type = "genselect" THEN <<genselect_preprocess>>
                    ELSE <<>>
         IN  IF before.raised THEN before
             ELSE IF ~r.ok THEN [tasks |-> before.tasks, raised |-> TRUE]
             ELSE [tasks |-> before.tasks
                       \o Chain(c, pairs[n], wrap_cmd(r.cmd, pre, r.postprocess_cmd),
                                configure_client(c, passed_server_port(c, drawn[n]),
                                                 ports[n]),
                                initial_tasks(c),
                                Len(before.tasks)),
                   raised |-> FALSE]

\* the experiment after the with-block of lines 609-696
Experiment(c, rem, drawn, ports) ==
    LET first == IF c.generation_type = "genselect"
                 THEN <<Task("preprocess", <<None, None>>, 0, <<genselect_preprocess>>,
                             [server_config |-> None, client_port |-> None], {})>>
                 ELSE <<>>
    IN  AddTasks(c, PairsOf(rem), drawn, ports, first, Len(PairsOf(rem)))

\* the marker files a pipeline touches when it runs to completion
TouchedBy(cmd) ==
    {Unmount(cmd[i].file) : i \in {j \in 1..Len(cmd) : cmd[j].kind = "touch"}}


\* the marker file of every requested unit, as the probe names it
ExpectedMarkers(c) ==
    {Unmount(done_file(S_output_dir, UnitsOf(c)[i][1], UnitsOf(c)[i][2], c.output_prefix)) :
        i \in 1..Len(UnitsOf(c))}

\* the marker files present when a behaviour starts: none, or all but a few
\* of the requested units' (only the latter for the large configurations)
RECURSIVE SubsetsUpTo(_, _)
SubsetsUpTo(S, k) ==
    IF k = 0 THEN {{}}
    ELSE LET smaller == SubsetsUpTo(S, k - 1)
         IN  smaller \cup {x \cup {a} : x \in smaller, a \in S}

InitialMarkers(c) ==
    {ExpectedMarkers(c) \ m : m \in SubsetsUpTo(ExpectedMarkers(c), MaxMissing)}
    \cup (IF Len(UnitsOf(c)) <= request_size THEN {{}} ELSE {})

NoPlan == [valid |-> FALSE, markers |-> {}, tasks |-> <<>>]

\* the variables of generate() while another entry point is looked at
IdleG ==
    /\ cfg = Cfg("generate", 0, None, None, FALSE, "local", None, 0, FALSE, FALSE)
    /\ markers = {}
    /\ pc = "off"
    /\ runs = 0
    /\ groups = <<>>
    /\ outputs = <<>>
    /\ probes = 0
    /\ probe_exit = 0
    /\ remaining_jobs = <<>>
    /\ exp = <<>>
    /\ ran = FALSE
    /\ jobs = {}
    /\ completed = {}
    /\ start_markers = {}
    /\ start_completed = {}
    /\ prev = NoPlan

IdleM == m_args = <<>> /\ file_map = None

IdleE ==
    /\ ecfg = <<>>
    /\ epc = "off"
    /\ eval_cmds = <<>>
    /\ job_batches = <<>>
    /\ etasks = <<>>
    /\ eserver = <<>>

\* the sandbox server with no request
IdleS ==
    /\ sreq = <<>>
    /\ spc = "off"
    /\ child = "none"
    /\ work = 0
    /\ clock = 0
    /\ squeue = <<>>
    /\ sresp = None

Init ==
    /\ IdleM
    /\ IdleE
    /\ IdleS
    /\ cfg \in Configs
    /\ markers \in InitialMarkers(cfg)
    /\ pc = "idle"
    /\ runs = 0
    /\ groups = <<>>
    /\ outputs = <<>>
    /\ probes = 0
    /\ probe_exit = 0
    /\ remaining_jobs = <<>>
    /\ exp = <<>>
    /\ ran = FALSE
    /\ jobs = {}
    /\ completed = {}
    /\ start_markers = {}
    /\ start_completed = {}
    /\ prev = NoPlan

\* ------------------------------------------------------------------ actions
\* generate() up to the first probe invocation (lines 519-606, 84-101)
Start ==
    /\ pc \in {"idle", "done", "failed"}
    /\ runs < MaxRuns
    /\ runs' = runs + 1
    /\ start_markers' = markers
    /\ start_completed' = completed
    /\ prev' = IF pc = "done"
               THEN [valid |-> TRUE, markers |-> start_markers, tasks |-> exp]
               ELSE prev
    /\ exp' = <<>>
    /\ ran' = FALSE
    /\ probes' = 0
    /\ probe_exit' = 0
    /\ outputs' = <<>>
    /\ IF Preflight(cfg) # ""
       THEN pc' = "failed" /\ groups' = <<>> /\ remaining_jobs' = <<>>
       ELSE IF ~NeedsProbe(cfg)
            THEN pc' = "compose" /\ groups' = <<>> /\ remaining_jobs' = RerunJobs(cfg)
            ELSE pc' = "probe" /\ groups' = ProbeGroups(cfg) /\ remaining_jobs' = <<>>
    /\ UNCHANGED <<cfg, markers, jobs, completed, mvars, evars, svars>>

\* a non-zero exit of the probe command raises: subprocess.run(check=True)
\* locally (line 113, 121), the tunnel's run on slurm (lines 111, 119)
ProbeRaisesUnchecked(executor, exit) == FALSE

ProbeRaises(executor, exit) == exit # 0

\* one probe invocation (one pass of the loop of lines 107-114, or lines
\* 117-121), and after the last one the parsing of lines 123-135
ProbeStep(exit) ==
    /\ pc = "probe"
    /\ groups # <<>>
    /\ probes' = probes + 1
    /\ probe_exit' = IF exit # 0 THEN exit ELSE probe_exit
    /\ IF ProbeRaises(cfg.executor, exit)
       THEN /\ pc' = "failed"
            /\ UNCHANGED <<groups, outputs, remaining_jobs>>
       ELSE LET out == IF exit = 0 THEN RunGroup(Head(groups), markers) ELSE <<>>
                outs == Append(outputs, out)
                lines == JoinOutputs(outs, cfg.executor)
            IN  /\ groups' = Tail(groups)
                /\ outputs' = outs
                /\ IF Tail(groups) # <<>>
                   THEN pc' = "probe" /\ UNCHANGED remaining_jobs
                   ELSE IF \A i \in 1..Len(lines) : LineOk(lines[i])
                        THEN pc' = "compose" /\ remaining_jobs' = missing_jobs(cfg, lines)
                        ELSE pc' = "failed" /\ UNCHANGED remaining_jobs
    /\ UNCHANGED <<cfg, markers, runs, exp, ran, jobs, completed, start_markers,
                   start_completed, prev, mvars, evars, svars>>

ProbeOk == ProbeStep(0)

ProbeFail == ProbeStep(1)

\* a task of the experiment as the backend holds it: what it is, the marker
\* files it touches and the tasks it waits for
JobKey(t) == <<t.kind, t.unit, t.link>>
Job(tasks, i) ==
    [key |-> JobKey(tasks[i]), touches |-> TouchedBy(tasks[i].cmd),
     deps |-> {JobKey(tasks[d]) : d \in tasks[i].task_dependencies}]

\* the with-block of generate (lines 609-702): tasks are added, and run_exp
\* hands them to the backend when there is any unit to run
Compose ==
    /\ pc = "compose"
    /\ \E ports \in [1..Len(PairsOf(remaining_jobs)) ->
                        IF IsNone(cfg.server_address) THEN FreePorts ELSE {"p1"}],
          drawn \in [1..Len(PairsOf(remaining_jobs)) ->
                        IF IsNone(cfg.server_address) /\ get_random_port(cfg)
                        THEN FreePorts ELSE {"p1"}] :
         LET r == Experiment(cfg, remaining_jobs, drawn, ports)
             has_tasks == Len(PairsOf(remaining_jobs)) > 0
         IN  /\ exp' = r.tasks
             /\ IF r.raised
                THEN pc' = "failed" /\ ran' = FALSE /\ UNCHANGED jobs
                ELSE /\ pc' = "done"
                     /\ ran' = has_tasks
                     /\ jobs' = IF has_tasks
                                THEN jobs \cup {Job(r.tasks, i) : i \in 1..Len(r.tasks)}
                                ELSE jobs
    /\ UNCHANGED <<cfg, markers, runs, groups, outputs, probes, probe_exit,
                   remaining_jobs, completed, start_markers, start_completed, prev,
                   mvars, evars, svars>>

\* the execution backend runs one task whose prerequisites are over to the
\* end of its pipeline; its touch stages create their marker files
RunJob ==
    \E j \in jobs :
        /\ \A k \in jobs : k.key \notin j.deps
        /\ markers' = markers \cup j.touches
        /\ jobs' = jobs \ {j}
        /\ completed' = IF j.key[1] = "unit" THEN completed \cup {j.key[2]} ELSE completed
        /\ UNCHANGED <<cfg, pc, runs, groups, outputs, probes, probe_exit,
                       remaining_jobs, exp, ran, start_markers, start_completed, prev,
                       mvars, evars, svars>>

Next == Start \/ ProbeOk \/ ProbeFail \/ Compose \/ RunJob

Spec == Init /\ [][Next]_vars


\* ------------------------------------------------------- claims on generate
\* the marker file of a unit as the completion probe names it
MarkerOf(u) == Unmount(done_file(S_output_dir, u[1], u[2], cfg.output_prefix))

Units == Range(UnitsOf(cfg))
Remaining == Range(PairsOf(remaining_jobs))
UnitTasks == {i \in 1..Len(exp) : exp[i].kind = "unit"}
Returned == pc \in {"compose", "done"}

\* C1: with force-rerun off, the units get_remaining_jobs returns are exactly
\* the requested units whose marker file does not exist, each once: every
\* unit whose marker is absent is returned and no unit whose marker existed
\* when the invocation started (markers are only ever created); with all
\* markers present nothing is returned, no unit task is added and run_exp is
\* not called.
C1_RemainingIsMissing ==
    (Returned /\ ~cfg.rerun_done) =>
        /\ {u \in Units : MarkerOf(u) \notin markers} \subseteq Remaining
        /\ Remaining \subseteq {u \in Units : MarkerOf(u) \notin start_markers}
        /\ Len(PairsOf(remaining_jobs)) = Cardinality(Remaining)
        /\ (pc = "done" /\ ExpectedMarkers(cfg) \subseteq start_markers)
              => (UnitTasks = {} /\ ~ran)
        /\ (pc = "done" /\ start_markers = {} /\ markers = {})
              => ({exp[i].unit : i \in UnitTasks} = Units /\ ran)

\* some markers exist, some do not, and the probe has returned the rest
C1_Witness ==
    /\ pc = "compose" /\ ~cfg.rerun_done
    /\ Cardinality(Units) >= 2
    /\ Remaining # {} /\ Remaining # Units
    /\ markers = start_markers

\* C9: with force-rerun set, get_remaining_jobs returns every requested unit
\* and no probe command is built or issued, whatever markers exist.
C9_RerunReturnsAllWithoutProbe ==
    cfg.rerun_done =>
        /\ probes = 0 /\ groups = <<>> /\ outputs = <<>>
        /\ Returned => PairsOf(remaining_jobs) = UnitsOf(cfg)

\* force-rerun resubmits a unit whose marker existed from the start
C9_Witness ==
    /\ cfg.rerun_done /\ pc = "done" /\ ran
    /\ \E i \in UnitTasks : MarkerOf(exp[i].unit) \in start_markers

\* C10: every probe invocation of a run is over before the first task is
\* added, and a run in which a probe invocation exited non-zero fails with
\* no task added and run_exp not called.
C10_ProbeBeforeTasks ==
    /\ (exp # <<>> \/ ran) => (groups = <<>> /\ pc \in {"done", "failed"})
    /\ probe_exit # 0 => (pc = "failed" /\ exp = <<>> /\ ~ran)

\* a later batch of a multi-batch probe failed
C10_Witness == probe_exit # 0 /\ probes > 1 /\ pc = "failed" /\ outputs # <<>>

\* positions of the stages of one kind in a pipeline
StagesOf(cmd, kind) == {i \in 1..Len(cmd) : cmd[i].kind = kind}

\* tasks of chunked units of generation type generate
ChunkedTasks == {i \in UnitTasks : ~IsNone(exp[i].unit[2])}

\* the markers of all chunks 0..num_chunks-1 of a seed
SeedMarkers(seed) ==
    {MarkerOf(<<seed, Some(k)>>) : k \in 0..(Val(cfg.num_chunks) - 1)}

C3_MergeOverAllChunks ==
    \A i \in ChunkedTasks :
        \A m \in StagesOf(exp[i].cmd, "merge") :
            /\ Len(exp[i].cmd[m].files) = Val(cfg.num_chunks)
            /\ \A k \in 1..Val(cfg.num_chunks) :
                  exp[i].cmd[m].files[k] =
                     get_chunked_rs_filename(S_output_dir, exp[i].unit[1], Some(k - 1),
                                             cfg.output_prefix)

\* a subset of the chunk ids was requested and a merge was composed
C3_Witness ==
    /\ ~IsNone(cfg.num_chunks) /\ Len(ChunkIdsOf(cfg)) < Val(cfg.num_chunks)
    /\ \E i \in ChunkedTasks : StagesOf(exp[i].cmd, "merge") # {}

\* two consecutive returned invocations between which no marker was created
SameMarkersTwice == pc = "done" /\ prev.valid /\ prev.markers = markers

\* a task without the port of its server
StripPort(t) == [t EXCEPT !.server_port = None, !.client_port = None]
StripPorts(tasks) == [i \in 1..Len(tasks) |-> StripPort(tasks[i])]

C6_FinishedNeverResubmitted ==
    ~cfg.rerun_done => \A i \in UnitTasks : exp[i].unit \notin start_completed

\* C11: an invocation given both a (non-empty) explicit seed list and a
\* (non-zero) sample count, or chunking (num_chunks or chunk_ids) with a
\* generation type other than generate, fails before any probe invocation is
\* built or issued, before any task is added and without run_exp.
C11_PreflightBeforeProbe ==
    (runs > 0 /\ (\/ (/\ ~IsNone(cfg.random_seeds) /\ Val(cfg.random_seeds) # <<>>
                      /\ cfg.num_random_seeds > 0)
                  \/ (/\ cfg.generation_type # "generate"
                      /\ (~IsNone(cfg.num_chunks) \/ ~IsNone(cfg.chunk_ids)))))
        => /\ pc = "failed"
           /\ probes = 0 /\ groups = <<>> /\ outputs = <<>>
           /\ remaining_jobs = <<>> /\ exp = <<>> /\ ~ran /\ jobs = {}

\* both seed arguments were given while markers are missing, and the
\* invocation has failed
C11_Witness ==
    /\ pc = "failed" /\ runs > 0
    /\ ~IsNone(cfg.random_seeds) /\ Len(Val(cfg.random_seeds)) = 2
    /\ cfg.num_random_seeds > 0
    /\ cfg.generation_type = "generate"
    /\ ~(ExpectedMarkers(cfg) \subseteq markers)

\* C12: an invocation of a generation type with its own evaluation (reward,
\* math_judge, genselect) that is given eval args ends in failure, whatever
\* markers exist, with no probe invocation issued, no task (the genselect
\* preprocess task included) added and run_exp not called.
C12_EvalArgsFailBeforeAnything ==
    (/\ runs > 0 /\ pc \in {"done", "failed"}
     /\ cfg.eval_args /\ cfg.generation_type \in {"reward", "math_judge", "genselect"})
        => (pc = "failed" /\ probes = 0 /\ exp = <<>> /\ ~ran)

\* positions in the experiment of the tasks of unit u
TasksOf(u) == {i \in UnitTasks : exp[i].unit = u}

\* C13: a returned invocation with dependent-job count k has added, for each
\* remaining unit, exactly k+1 tasks: links 0..k in this order, all with the
\* same pipeline; link n+1 has link n of the same unit as its only task
\* dependency, and the first link depends on no unit task.  The backend takes
\* up a task only when none of the tasks it depends on is still pending.
C13_LinearChains ==
    /\ [](pc = "done" =>
            /\ {exp[i].unit : i \in UnitTasks} = Remaining
            /\ \A u \in Remaining :
                  /\ Cardinality(TasksOf(u)) = cfg.dependent_jobs + 1
                  /\ \A i, j \in TasksOf(u) : exp[i].cmd = exp[j].cmd
                  /\ \A i \in TasksOf(u) :
                        IF exp[i].link = 0
                        THEN exp[i].task_dependencies \cap UnitTasks = {}
                        ELSE /\ exp[i].task_dependencies = {i - 1}
                             /\ exp[i - 1].unit = u
                             /\ exp[i - 1].link = exp[i].link - 1
                  /\ {exp[i].link : i \in TasksOf(u)} = 0..cfg.dependent_jobs)
    /\ [][\A j \in jobs \ jobs' : \A k \in jobs : k.key \notin j.deps]_vars

\* two chains of two links were planned; the first link of one is over and
\* its second link is pending
C13_Witness ==
    /\ pc = "done" /\ cfg.dependent_jobs = 1 /\ Cardinality(Remaining) >= 2
    /\ \E u \in Remaining :
          /\ \E j \in jobs : j.key = <<"unit", u, 1>>
          /\ \A j \in jobs : j.key # <<"unit", u, 0>>

\* C14: for genselect the preprocess task is the only task dependency of the
\* first link of the chain of every unit; for the other generation types no
\* preprocess task exists and a first link has no task dependency; every
\* later link depends on its predecessor link only.
C14_PreprocessBeforeEveryChain ==
    pc = "done" =>
        /\ \A i \in 1..Len(exp) :
              exp[i].kind = "preprocess" <=> (cfg.generation_type = "genselect" /\ i = 1)
        /\ \A i \in UnitTasks :
              IF exp[i].link > 0 THEN exp[i].task_dependencies = {i - 1}
              ELSE IF cfg.generation_type = "genselect"
                   THEN exp[i].task_dependencies = {1}
                   ELSE exp[i].task_dependencies = {}

\* a genselect run planned two units and the preprocess task is over
C14_Witness ==
    /\ pc = "done" /\ cfg.generation_type = "genselect"
    /\ Cardinality(Remaining) >= 2
    /\ \A j \in jobs : j.key[1] # "preprocess"
    /\ Cardinality({j \in jobs : <<"preprocess", <<None, None>>, 0>> \in j.deps}) >= 2

\* the units named by the MISSING lines of one probe output
MissingIn(out) == Range(PairsOf(ParseMissing(out)))

\* C20: no probe invocation carries more than request_size (16) existence
\* checks, however many seeds and chunk ids there are, and the units
\* returned as remaining are the union of the units the outputs of the
\* invocations report missing.
C20_ProbeBatchesAtMost16 ==
    /\ \A g \in 1..Len(groups) : Len(groups[g]) <= request_size
    /\ (pc = "compose" /\ ~cfg.rerun_done) =>
          Remaining = UNION {MissingIn(outputs[k]) : k \in 1..Len(outputs)}

\* with more than request_size seeds the invocations hold at most
\* request_size checks each
BatchesSplitBySeeds ==
    Len(SeedsOf(cfg)) > request_size =>
        \A g \in 1..Len(groups) : Len(groups[g]) <= request_size

\* ceil(n / request_size)
CeilRequests(n) == (n + request_size - 1) \div request_size

\* C21 as stated: an invocation issues at most ceil(|seeds| / 16) probe
\* invocations, whatever the number of chunk ids.
C21_RoundTripsBySeeds == probes <= CeilRequests(Len(SeedsOf(cfg)))

\* C21 as amended: an invocation issues at most ceil(|seeds| x |chunk ids|
\* / 16) probe invocations: none under force-rerun, one when there are at
\* most 16 seeds, and one per 16 units when there are more than 16 seeds.
C21_RoundTripsByUnits ==
    /\ probes <= CeilRequests(Len(SeedsOf(cfg)) * Len(ChunkIdsOf(cfg)))
    /\ cfg.rerun_done => probes = 0
    /\ Len(SeedsOf(cfg)) <= request_size => probes <= 1
    /\ (pc = "compose" /\ ~cfg.rerun_done) =>
          probes = IF Len(SeedsOf(cfg)) <= request_size THEN 1
                   ELSE CeilRequests(Len(UnitsOf(cfg)))

\* more than 16 seeds in two chunks each: more invocations than
\* ceil(|seeds| / 16)
C21_Witness ==
    /\ pc = "compose"
    /\ Len(SeedsOf(cfg)) > request_size /\ Len(ChunkIdsOf(cfg)) = 2
    /\ probes > CeilRequests(Len(SeedsOf(cfg)))

\* tasks of unchunked units of generation type generate
UnchunkedTasks ==
    {i \in UnitTasks : IsNone(exp[i].unit[2]) /\ cfg.generation_type = "generate"}

\* C22: the pipeline of an unchunked unit ends with the touch of the unit's
\* marker: the touch comes after the generation and evaluation stages and
\* after the post-process command when one is given.
C22_TouchIsFinalStage ==
    \A i \in UnchunkedTasks :
        LET cmd == exp[i].cmd
        IN  /\ cmd[Len(cmd)].kind = "touch"
            /\ Unmount(cmd[Len(cmd)].file) = MarkerOf(exp[i].unit)
            /\ \A k \in StagesOf(cmd, "postprocess") : \A t \in StagesOf(cmd, "touch") : k < t

\* the order the code composes: generation, evaluation when asked for, the
\* touch of the unit's marker, and last the post-process command
TouchBeforePostprocess ==
    \A i \in UnchunkedTasks :
        LET cmd == exp[i].cmd
        IN  /\ Cardinality(StagesOf(cmd, "touch")) = 1
            /\ \A t \in StagesOf(cmd, "touch") :
                  /\ Unmount(cmd[t].file) = MarkerOf(exp[i].unit)
                  /\ \A k \in StagesOf(cmd, "generate") \cup StagesOf(cmd, "evaluate") : k < t
                  /\ \A k \in StagesOf(cmd, "postprocess") : k = t + 1 /\ k = Len(cmd)
            /\ cfg.postprocess_cmd <=> StagesOf(cmd, "postprocess") # {}

\* C23 (for generate): a job that hosts the model boots its server on the
\* fixed default port when the job is exclusive and on a drawn free port
\* otherwise, the port of the server config being the port its generation
\* command connects to; with a server address supplied there is no server
\* config.
C23_PortByExclusivity ==
    \A i \in UnitTasks :
        IF IsNone(cfg.server_address)
        THEN /\ ~IsNone(exp[i].server_port)
             /\ exp[i].client_port = exp[i].server_port
             /\ cfg.exclusive => Val(exp[i].server_port) = S_5000
             /\ ~cfg.exclusive => Val(exp[i].server_port) \in FreePorts
        ELSE IsNone(exp[i].server_port)

\* what generate does: the port is always a drawn free port, the same in the
\* server config and in the command; no server config with an address
PortAlwaysDrawn ==
    \A i \in UnitTasks :
        IF IsNone(cfg.server_address)
        THEN /\ ~IsNone(exp[i].server_port)
             /\ exp[i].client_port = exp[i].server_port
             /\ Val(exp[i].server_port) \in FreePorts
        ELSE IsNone(exp[i].server_port) /\ IsNone(exp[i].client_port)

\* C25: the pipeline of every unit the planner submits touches exactly one
\* marker file, the one the completion probe checks for that unit.
C25_TouchesProbedMarker ==
    \A i \in UnitTasks : TouchedBy(exp[i].cmd) = {MarkerOf(exp[i].unit)}

\* the units for which the pipeline touches the probed marker: those of
\* generation type generate that are unchunked or have a chunk id in
\* 0..num_chunks-1
TouchesProbedMarkerInRange ==
    \A i \in UnitTasks :
        (/\ cfg.generation_type = "generate"
         /\ IsNone(exp[i].unit[2]) \/ Val(exp[i].unit[2]) >= 0)
            => TouchedBy(exp[i].cmd) = {MarkerOf(exp[i].unit)}


\* --------------------------------------------- marker paths, on their own
\* seeds and chunk ids get_expected_done_files is applied to
IdSpace == {None} \cup {Some(n) : n \in (0 - 1)..MaxId}
IdLists == {<<a>> : a \in IdSpace} \cup {<<a, b>> : a \in IdSpace, b \in IdSpace}
Prefixes == {S_output, S_output \o S_rs \o <<"1">>}

InitMarker ==
    /\ IdleG
    /\ IdleE
    /\ IdleS
    /\ m_args \in {[random_seeds |-> s, chunk_ids |-> k, output_prefix |-> p] :
                      s \in IdLists, k \in {<<a>> : a \in IdSpace}, p \in Prefixes}
                  \cup
                  {[random_seeds |-> <<s>>, chunk_ids |-> k, output_prefix |-> p] :
                      s \in IdSpace, k \in IdLists, p \in Prefixes}
    /\ file_map = None

\* get_expected_done_files(output_dir, random_seeds, chunk_ids, output_prefix)
BuildFileMap ==
    /\ m_args # <<>>
    /\ file_map = None
    /\ file_map' = Some(get_expected_done_files(S_output_dir, m_args.random_seeds,
                                                m_args.chunk_ids, m_args.output_prefix))
    /\ UNCHANGED <<m_args, gvars, evars, svars>>

NextMarker == BuildFileMap

SpecMarker == InitMarker /\ [][NextMarker]_vars

\* C5: for a fixed output directory and prefix, different (seed, chunk_id)
\* pairs, None included, have different .done paths: file_map holds one
\* path per unit and no path twice.
C5_MarkerInjective ==
    ~IsNone(file_map) =>
        LET fm == Val(file_map)
        IN  /\ \A i, j \in 1..Len(fm) : fm[i][1] # fm[j][1] => fm[i][2] # fm[j][2]
            /\ Cardinality({fm[i][2] : i \in 1..Len(fm)})
                 = Cardinality(Range(m_args.random_seeds)) * Cardinality(Range(m_args.chunk_ids))

\* a greedy and a sampled unit, or two ids one a digit-prefix of the other
C5_Witness ==
    /\ ~IsNone(file_map)
    /\ Len(Val(file_map)) = 2
    /\ Val(file_map)[1][1][1] = Some(1) /\ Val(file_map)[2][1][1] = Some(11)
    /\ Val(file_map)[1][1][2] = Some(11)


\* ------------------------------------------------------------------- eval()
S_gsm8k == <<"g", "s", "m", "8", "k">>
S_minif2f == <<"m", "i", "n", "i", "f", "2", "f">>
S_eval_results == <<"e", "v", "a", "l", "-", "r", "e", "s", "u", "l", "t", "s">>

\* the benchmarks argument parsed (line 316): a list of <<name, rs_num>>
BenchmarkLists ==
    {<<<<S_gsm8k, n>>>> : n \in 0..MaxSamples}
    \cup {<<<<S_gsm8k, n>>, <<S_minif2f, m>>>> : n \in 0..MaxSamples, m \in 0..1}

ECfg(b, nj, nc, cids, greedy, sandbox) ==
    [benchmarks |-> b, num_jobs |-> nj, num_chunks |-> nc, chunk_ids |-> cids,
     add_greedy |-> greedy, starting_seed |-> 0, with_sandbox |-> sandbox,
     server_address |-> Some("addr"), exclusive |-> FALSE, server_gpus |-> 1]

\* eval hosting the model, on a full node or not
EvalServerConfigs ==
    {[ECfg(<<<<S_gsm8k, 1>>>>, nj, None, None, TRUE, FALSE)
        EXCEPT !.server_address = addr, !.exclusive = ex, !.server_gpus = g] :
        nj \in {0 - 1, 1}, addr \in {None, Some("addr")}, ex \in BOOLEAN, g \in {1, 8}}

EvalConfigs ==
    {ECfg(b, nj, cr[1], cr[2], greedy, sandbox) :
        b \in BenchmarkLists, nj \in {0 - 1} \cup 0..MaxJobs,
        cr \in {<<None, None>>, <<Some(2), None>>, <<Some(3), None>>, <<Some(3), Some(<<1>>)>>},
        greedy \in BOOLEAN, sandbox \in BOOLEAN}
    \cup EvalServerConfigs

\* chunk_ids after lines 282-283: None, or the list of chunk ids
EvalChunkIds(c) ==
    IF ~IsNone(c.num_chunks) /\ Val(c.num_chunks) # 0
    THEN compute_chunk_ids(c.chunk_ids, Val(c.num_chunks))
    ELSE IF IsNone(c.chunk_ids) THEN None
    ELSE Some([i \in 1..Len(Val(c.chunk_ids)) |-> Some(Val(c.chunk_ids)[i])])

\* num_runs (lines 284-285)
num_runs(c) ==
    IF ~IsNone(c.num_chunks) /\ ~IsNone(EvalChunkIds(c))
    THEN Len(Val(EvalChunkIds(c)))
    ELSE 1

\* add_default_args: the benchmarks of dataset group lean4 need the sandbox
requires_sandbox(benchmark) == benchmark = S_minif2f

\* one element of eval_cmds: the pipeline, its benchmark, and the seed and
\* chunk its parameters name
EvalCmd(benchmark, seed, chunk_id, output_name) ==
    LET dir == path_join(path_join(S_output_dir, S_eval_results), benchmark)
    IN  [benchmark |-> benchmark, seed |-> seed, chunk_id |-> chunk_id,
         cmd |-> << Stage("generate", path_join(dir, output_name), <<>>, FALSE),
                    Stage("evaluate",
                          path_join(dir, IF IsNone(chunk_id) THEN output_name
                                         ELSE get_chunked_filename(Val(chunk_id), output_name)),
                          <<>>, FALSE) >>]

\* get_greedy_cmd (lines 44-70); get_sampling_cmd (lines 73-91) calls it
\* with the seed's output name
get_greedy_cmd(c, benchmark, seed, output_name) ==
    IF IsNone(c.num_chunks) \/ IsNone(EvalChunkIds(c))
    THEN <<EvalCmd(benchmark, seed, None, output_name)>>
    ELSE [i \in 1..Len(Val(EvalChunkIds(c))) |->
             EvalCmd(benchmark, seed, Val(EvalChunkIds(c))[i], output_name)]

get_sampling_cmd(c, benchmark, random_seed) ==
    get_greedy_cmd(c, benchmark, Some(random_seed),
                   S_output \o S_rs \o py_str(random_seed) \o S_jsonl)

\* the commands of one benchmark (lines 337-362)
BenchmarkCmds(c, benchmark, rs_num) ==
    (IF c.add_greedy \/ rs_num = 0
     THEN get_greedy_cmd(c, benchmark, None, S_output \o S_jsonl)
     ELSE <<>>)
    \o Flatten([k \in 1..rs_num |-> get_sampling_cmd(c, benchmark, c.starting_seed + k - 1)])

\* eval_cmds after the loop of lines 322-362
ComposeEvalCmds(c) ==
    Flatten([b \in 1..Len(c.benchmarks) |->
                BenchmarkCmds(c, c.benchmarks[b][1], c.benchmarks[b][2])])

\* num_jobs after lines 364-368
EffectiveNumJobsTotal(c, n_cmds) ==
    IF c.num_jobs = 0 - 1 THEN n_cmds ELSE c.num_jobs

EffectiveNumJobs(c, n_cmds) ==
    IF c.num_jobs = 0 - 1 THEN n_cmds ELSE c.num_jobs * num_runs(c)

\* Python lst[i::step] for step > 0 and 0 <= i
SliceContiguous(lst, i, step) ==
    LET size == (Len(lst) + step - 1) \div step
        lo == i * size + 1
        hi == IF (i + 1) * size < Len(lst) THEN (i + 1) * size ELSE Len(lst)
    IN  IF lo > hi THEN <<>> ELSE SubSeq(lst, lo, hi)

Slice(lst, i, step) ==
    LET n == IF Len(lst) > i THEN (Len(lst) - i + step - 1) \div step ELSE 0
    IN  [k \in 1..n |-> lst[i + (k - 1) * step + 1]]

\* job_batches (lines 370-378)
MakeBatches(cmds, n_jobs) ==
    [i \in 1..(IF n_jobs > 0 THEN n_jobs ELSE 0) |->
        LET mine == Slice(cmds, i - 1, n_jobs)
        IN  [cmds |-> [k \in 1..Len(mine) |-> mine[k].cmd],
             benchmarks_in_job |-> {mine[k].benchmark : k \in 1..Len(mine)}]]

\* the server settings of eval (lines 288-314): one port for the whole
\* invocation, drawn unless the job takes a full node; port is the draw
eval_server(c, port) ==
    IF IsNone(c.server_address)
    THEN LET server_port == IF get_random_port(c) THEN port ELSE S_5000
         IN  [server_config |-> Some(server_port), client_port |-> Some(server_port)]
    ELSE [server_config |-> None, client_port |-> None]

\* the task added for one batch (lines 381-407)
EvalTask_AnySandbox(c, idx, batch, server) ==
    [idx |-> idx, cmd |-> Flatten(batch.cmds),
     server_port |-> server.server_config, client_port |-> server.client_port,
     with_sandbox |-> c.with_sandbox
                      \/ \E b \in 1..Len(c.benchmarks) : requires_sandbox(c.benchmarks[b][1])]

EvalTask(c, idx, batch, server) ==
    [idx |-> idx, cmd |-> Flatten(batch.cmds),
     server_port |-> server.server_config, client_port |-> server.client_port,
     with_sandbox |-> c.with_sandbox
                      \/ \E b \in batch.benchmarks_in_job : requires_sandbox(b)]

InitEval ==
    /\ IdleG
    /\ IdleM
    /\ IdleS
    /\ ecfg \in EvalConfigs
    /\ epc = "start"
    /\ eval_cmds = <<>>
    /\ job_batches = <<>>
    /\ etasks = <<>>
    /\ eserver = <<>>

\* eval() up to the end of the loop over the benchmarks (lines 246-362)
EvalCompose ==
    /\ epc = "start"
    /\ \E port \in IF IsNone(ecfg.server_address) /\ get_random_port(ecfg)
                    THEN FreePorts ELSE {"p1"} :
          eserver' = eval_server(ecfg, port)
    /\ eval_cmds' = ComposeEvalCmds(ecfg)
    /\ epc' = "composed"
    /\ UNCHANGED <<ecfg, job_batches, etasks, gvars, mvars, svars>>

\* the batching of lines 364-378
EvalBatch ==
    /\ epc = "composed"
    /\ job_batches' = MakeBatches(eval_cmds, EffectiveNumJobs(ecfg, Len(eval_cmds)))
    /\ epc' = "batched"
    /\ UNCHANGED <<ecfg, eval_cmds, etasks, eserver, gvars, mvars, svars>>

\* one task per batch, then run_exp (lines 380-408)
EvalLaunch ==
    /\ epc = "batched"
    /\ etasks' = [i \in 1..Len(job_batches) |->
                     EvalTask(ecfg, i - 1, job_batches[i], eserver)]
    /\ epc' = "launched"
    /\ UNCHANGED <<ecfg, eval_cmds, job_batches, eserver, gvars, mvars, svars>>

NextEval == EvalCompose \/ EvalBatch \/ EvalLaunch

SpecEval == InitEval /\ [][NextEval]_vars

Batched == epc \in {"batched", "launched"}

\* C7: with N composed pipelines in J batches, every batch holds floor(N/J)
\* or ceil(N/J) pipelines, so two batches differ by at most one pipeline.
C7_BatchSizesBalanced ==
    (Batched /\ Len(job_batches) > 0) =>
        LET N == Len(eval_cmds)
            J == Len(job_batches)
        IN  /\ \A i \in 1..J :
                  Len(job_batches[i].cmds) \in {N \div J, (N + J - 1) \div J}
            /\ \A i, j \in 1..J :
                  Len(job_batches[i].cmds) - Len(job_batches[j].cmds) \in {0 - 1, 0, 1}

\* N is no multiple of J: batches of both sizes, each with a pipeline
C7_Witness ==
    /\ Batched /\ Len(job_batches) >= 2
    /\ \E i, j \in 1..Len(job_batches) :
          /\ Len(job_batches[i].cmds) > Len(job_batches[j].cmds)
          /\ Len(job_batches[j].cmds) > 0

RequestedChunkCount ==
    IF IsNone(ecfg.num_chunks) THEN 1
    ELSE IF IsNone(ecfg.chunk_ids) THEN Val(ecfg.num_chunks)
    ELSE Len(Val(ecfg.chunk_ids))

ResultsDir(benchmark) == path_join(path_join(S_output_dir, S_eval_results), benchmark)

\* the units the claim has eval plan for one benchmark with sample count n:
\* the greedy unit iff n = 0 or add_greedy, the seeds s..s+n-1, each once
\* per requested chunk id when chunking is requested
ExpectedEvalUnits(c, n) ==
    LET seeds == (IF n = 0 \/ c.add_greedy THEN {None} ELSE {})
                 \cup {Some(c.starting_seed + k) : k \in 0..(n - 1)}
        chunks == IF IsNone(c.num_chunks) THEN {None}
                  ELSE IF IsNone(c.chunk_ids)
                       THEN {Some(k) : k \in 0..(Val(c.num_chunks) - 1)}
                       ELSE {Some(Val(c.chunk_ids)[k]) : k \in 1..Len(Val(c.chunk_ids))}
    IN  seeds \X chunks

\* the pipelines composed for one benchmark
CmdsOf(benchmark) == {i \in 1..Len(eval_cmds) : eval_cmds[i].benchmark = benchmark}

\* the work matrix of eval: one pipeline per expected unit, generating into
\* the unit's output[-rsS].jsonl and evaluating its (chunk's) file, named
\* as get_chunked_rs_filename names the units of generate
WorkMatrixAsClaimed ==
    epc # "start" =>
        \A b \in 1..Len(ecfg.benchmarks) :
            LET name == ecfg.benchmarks[b][1]
                units == ExpectedEvalUnits(ecfg, ecfg.benchmarks[b][2])
            IN  /\ Cardinality(CmdsOf(name)) = Cardinality(units)
                /\ \A u \in units : \E i \in CmdsOf(name) :
                      /\ eval_cmds[i].cmd[1].kind = "generate"
                      /\ eval_cmds[i].cmd[1].file
                            = get_chunked_rs_filename(ResultsDir(name), u[1], None, S_output)
                      /\ eval_cmds[i].cmd[2].kind = "evaluate"
                      /\ eval_cmds[i].cmd[2].file
                            = get_chunked_rs_filename(ResultsDir(name), u[1], u[2], S_output)

\* every composed pipeline touches the marker of its unit
EvalMarkersTouched ==
    \A i \in 1..Len(eval_cmds) :
        \E k \in 1..Len(eval_cmds[i].cmd) :
            /\ eval_cmds[i].cmd[k].kind = "touch"
            /\ eval_cmds[i].cmd[k].file = eval_cmds[i].cmd[2].file \o S_done

\* C15: for every benchmark eval composes exactly the units of the work
\* matrix (greedy iff n = 0 or add_greedy, seeds s..s+n-1, one unit per
\* requested chunk id), each with its output file and its .done marker.
C15_WorkMatrixWithMarkers == WorkMatrixAsClaimed /\ EvalMarkersTouched

\* C16: for gsm8k:0 without chunking and num_jobs = -1 eval creates one
\* batch holding one pipeline, and a stage of that pipeline touches
\* output.jsonl.done.
C16_ScenarioA ==
    (/\ Batched /\ ecfg.benchmarks = <<<<S_gsm8k, 0>>>>
     /\ IsNone(ecfg.num_chunks) /\ IsNone(ecfg.chunk_ids) /\ ecfg.num_jobs = 0 - 1)
        => /\ Len(job_batches) = 1
           /\ Len(job_batches[1].cmds) = 1
           /\ \E k \in 1..Len(job_batches[1].cmds[1]) :
                 /\ job_batches[1].cmds[1][k].kind = "touch"
                 /\ job_batches[1].cmds[1][k].file
                       = path_join(ResultsDir(S_gsm8k), S_output \o S_jsonl \o S_done)

\* scenario A as far as the code goes: one batch, one pipeline (generate,
\* then evaluate, of output.jsonl)
ScenarioAOneBatch ==
    (/\ Batched /\ ecfg.benchmarks = <<<<S_gsm8k, 0>>>>
     /\ IsNone(ecfg.num_chunks) /\ IsNone(ecfg.chunk_ids) /\ ecfg.num_jobs = 0 - 1)
        => /\ Len(job_batches) = 1
           /\ Len(job_batches[1].cmds) = 1
           /\ job_batches[1].cmds[1][1].file
                 = path_join(ResultsDir(S_gsm8k), S_output \o S_jsonl)


\* the batches are the round-robin partition of eval_cmds: the pipeline at
\* position i (from 0) is the (i div J)-th pipeline of batch i mod J, and
\* the batches hold nothing else
RoundRobin ==
    LET N == Len(eval_cmds)
        J == Len(job_batches)
    IN  /\ \A i \in 0..(N - 1) :
              /\ Len(job_batches[(i % J) + 1].cmds) >= (i \div J) + 1
              /\ job_batches[(i % J) + 1].cmds[(i \div J) + 1] = eval_cmds[i + 1].cmd
        /\ \A b \in 1..J : \A k \in 1..Len(job_batches[b].cmds) :
              (k - 1) * J + (b - 1) < N

\* round-robin assignment whenever any batch is created
RoundRobinWhenBatches == (Batched /\ Len(job_batches) > 0) => RoundRobin

\* C18: for every num_jobs the caller passes, the batches are the
\* round-robin partition of the composed pipelines: each pipeline is in
\* exactly one batch, position i in batch i mod J, in its original order.
C18_RoundRobinPartition ==
    Batched => (Len(job_batches) > 0 /\ RoundRobin)

\* C19: no batch is empty and no task is added with an empty command list,
\* whatever num_jobs and the number of composed pipelines.
C19_NoEmptyBatch ==
    /\ \A b \in 1..Len(job_batches) : Len(job_batches[b].cmds) > 0
    /\ \A t \in 1..Len(etasks) : etasks[t].cmd # <<>>


\* the port of eval's tasks: the default port when the job is exclusive or
\* its server takes 8 GPUs, a drawn free port otherwise, the same in the
\* server config and the command; no server config with an address
EvalPortByFullNode ==
    \A t \in 1..Len(etasks) :
        IF IsNone(ecfg.server_address)
        THEN /\ ~IsNone(etasks[t].server_port)
             /\ etasks[t].client_port = etasks[t].server_port
             /\ Val(etasks[t].server_port) =
                    (IF ecfg.exclusive \/ ecfg.server_gpus = 8 THEN S_5000
                     ELSE Val(etasks[t].server_port))
             /\ Val(etasks[t].server_port) \in FreePorts \cup {S_5000}
             /\ (~ecfg.exclusive /\ ecfg.server_gpus # 8)
                   => Val(etasks[t].server_port) \in FreePorts
        ELSE IsNone(etasks[t].server_port) /\ IsNone(etasks[t].client_port)


\* the benchmarks whose pipelines are in batch b (from 1) of J batches
BenchmarksInBatch(b) ==
    {eval_cmds[i].benchmark :
        i \in {k \in 1..Len(eval_cmds) : (k - 1) % Len(job_batches) = b - 1}}

\* C24: the task of a batch is launched with the sandbox iff sandbox was
\* forced on or a benchmark with a pipeline in that batch requires it,
\* whatever the other batches of the invocation need.
C24_SandboxPerBatch ==
    epc = "launched" =>
        \A t \in 1..Len(etasks) :
            etasks[t].with_sandbox <=>
                (ecfg.with_sandbox \/ \E b \in BenchmarksInBatch(t) : requires_sandbox(b))

\* sandbox not forced: one batch is launched with it, another without
C24_Witness ==
    /\ epc = "launched" /\ ~ecfg.with_sandbox
    /\ \E t, u \in 1..Len(etasks) :
          /\ etasks[t].with_sandbox /\ ~etasks[u].with_sandbox
          /\ etasks[u].cmd # <<>>


\* --------------------------------------------- local sandbox server: /execute
\* What the submitted code does when exec() runs it: "ok" returns, "exception"
\* raises an Exception (SyntaxError included), "base_exception" raises
\* SystemExit or another BaseException that is no Exception (sys.exit(),
\* exit()), "dies" ends the process at once (os._exit, a kill for memory).
CodeKinds == {"ok", "exception", "base_exception", "dies"}

\* the size of what the code prints: a "large" result does not fit the
\* queue's pipe, so the subprocess cannot flush it before somebody reads
OutputSizes == {"small", "large"}

Requests ==
    {[code |-> k, size |-> z, duration |-> d, timeout |-> t] :
        k \in CodeKinds, z \in OutputSizes, d \in 0..MaxWork, t \in 1..MaxTimeout}

TimeoutRecord ==
    [process_status |-> "timeout", stdout |-> "Timed out", stderr |-> "Timed out"]

CompletedRecord(result) ==
    [process_status |-> "completed", stdout |-> result.stdout, stderr |-> result.stderr]

InitSandbox ==
    /\ IdleG
    /\ IdleM
    /\ IdleE
    /\ sreq \in Requests
    /\ spc = "received"
    /\ child = "none"
    /\ work = 0
    /\ clock = 0
    /\ squeue = <<>>
    /\ sresp = None

\* execute() up to process.start() (lines 53-57)
SandboxStart ==
    /\ spc = "received"
    /\ spc' = "joining"
    /\ child' = "running"
    /\ work' = sreq.duration
    /\ UNCHANGED <<sreq, clock, squeue, sresp, gvars, mvars, evars>>

\* time passes while the parent waits in process.join(timeout) (line 58)
Tick ==
    /\ spc = "joining"
    /\ clock < sreq.timeout
    /\ child \in {"running", "flushing"}
    /\ clock' = clock + 1
    /\ work' = IF child = "running" /\ work > 0 THEN work - 1 ELSE work
    /\ UNCHANGED <<sreq, spc, child, squeue, sresp, gvars, mvars, evars>>

\* execute_code_subprocess once exec() is over (lines 40-47): queue.put on a
\* normal return and on an Exception; anything else leaves the function, and
\* the process, without a put
ChildFinish ==
    /\ child = "running"
    /\ work = 0
    /\ child' = IF sreq.code \in {"ok", "exception"} THEN "flushing" ELSE "exited"
    /\ UNCHANGED <<sreq, spc, work, clock, squeue, sresp, gvars, mvars, evars>>

\* the queue's feeder thread writes the result to the pipe, and the process
\* exits once it is written; a result larger than the pipe waits for a reader
ChildFlush ==
    /\ child = "flushing"
    /\ sreq.size = "small" \/ spc = "getting"
    /\ squeue' = Append(squeue,
                        [stdout |-> "out",
                         stderr |-> IF sreq.code = "exception" THEN "traceback" ELSE ""])
    /\ child' = "exited"
    /\ UNCHANGED <<sreq, spc, work, clock, sresp, gvars, mvars, evars>>

\* process.join(timeout) returns: the process is over or the time is up
JoinReturns ==
    /\ spc = "joining"
    /\ child = "exited" \/ clock = sreq.timeout
    /\ spc' = "checked"
    /\ UNCHANGED <<sreq, child, work, clock, squeue, sresp, gvars, mvars, evars>>

\* lines 60-62: a process still alive is killed and the timeout record returned
CheckAlive ==
    /\ spc = "checked"
    /\ IF child # "exited"
       THEN /\ child' = "killed"
            /\ sresp' = Some(TimeoutRecord)
            /\ spc' = "returned"
       ELSE /\ spc' = "getting"
            /\ UNCHANGED <<child, sresp>>
    /\ UNCHANGED <<sreq, work, clock, squeue, gvars, mvars, evars>>

\* lines 64-68: queue.get() waits, without a timeout, for a result
QueueGet ==
    /\ spc = "getting"
    /\ squeue # <<>>
    /\ sresp' = Some(CompletedRecord(Head(squeue)))
    /\ squeue' = Tail(squeue)
    /\ spc' = "returned"
    /\ UNCHANGED <<sreq, child, work, clock, gvars, mvars, evars>>

NextSandbox ==
    SandboxStart \/ Tick \/ ChildFinish \/ ChildFlush \/ JoinReturns \/ CheckAlive
    \/ QueueGet

\* the server thread and the subprocess keep running, and time passes
SpecSandbox == InitSandbox /\ [][NextSandbox]_vars /\ WF_vars(NextSandbox)

\* C17: every request to /execute is eventually answered, with the completed
\* or the timeout record, whatever the code does.
C17_AlwaysReturns ==
    <>(/\ spc = "returned"
       /\ ~IsNone(sresp)
       /\ Val(sresp).process_status \in {"completed", "timeout"})

====
